---- MODULE Spec2Model ----
(***************************************************************************)
(* Model of finite_state_machine/src/mod_three_fsm.py: the generic FSM     *)
(* engine (class FSM) and its modulo-3 specialization (class ModThreeFSM). *)
(* One behaviour is the life of one instance: its construction followed by *)
(* any sequence of calls of its public methods.                            *)
(* Also modelled: ThresholdOptimizer of                                    *)
(* binary_classification_threshold/src/threshold_optimizer.py.             *)
(***************************************************************************)
EXTENDS Integers, Sequences, FiniteSets, TLC

VARIABLES
    instance,             \* class of the constructed object, "none" before / without one
    states,               \* self.states
    alphabet,             \* self.alphabet
    initial_state,        \* self.initial_state
    final_states,         \* self.final_states
    transition_function,  \* self.transition_function
    current_state,        \* self.current_state
    last,                 \* the last call: what was called, with what, and how it ended
    run,                  \* the call in progress, when a call is followed statement by statement
    optimizer,            \* "ThresholdOptimizer" once one is constructed, "none" before
    metrics_list,         \* ThresholdOptimizer.metrics_list
    found                 \* the last call on the optimizer and how it ended

vars == << instance, states, alphabet, initial_state, final_states,
           transition_function, current_state, last, run,
           optimizer, metrics_list, found >>

threshold_optimizer == << optimizer, metrics_list, found >>

definition == << states, alphabet, initial_state, final_states, transition_function >>

----------------------------------------------------------------------------
(* Bounds *)

\* longest input string handed to a ModThreeFSM
MaxLen == 4

\* longest input string handed to a generic engine
MaxGenLen == 3

\* longest metrics list handed to a ThresholdOptimizer
MaxMetrics == 2

\* greatest count (true positives, false positives, false negatives) of a metric
MaxCount == 1

----------------------------------------------------------------------------
(* Values *)

None == "None"

\* class ModThreeState(State): S0, S1, S2
ModThreeState == {"S0", "S1", "S2"}

\* the characters of inputs: the two bits and a non-bit
Chars == {"0", "1", "2"}

\* the states and symbols the definitions of generic engines are built from
GenStates == {"S0", "S1"}
GenSymbols == {"0", "1"}

\* all strings of at most n characters of C, the empty string included
StringsOver(C, n) == UNION { [1..k -> C] : k \in 0..n }

\* the input strings tried on an instance: a ModThreeFSM is given strings of
\* bits and non-bits, a generic engine strings of the symbols its definition
\* is drawn from (which its alphabet may or may not contain)
Strings == IF instance = "ModThreeFSM" THEN StringsOver(Chars, MaxLen)
           ELSE StringsOver(GenSymbols, MaxGenLen)

\* the dictionaries {symbol: next_state} and {state: {symbol: next_state}}
SymbolDicts == UNION { [D -> GenStates] : D \in SUBSET GenSymbols }
TransitionDicts == UNION { [D -> SymbolDicts] : D \in SUBSET GenStates }

\* the exceptions the code raises, by type and message
ErrInitialState == "ValueError: Initial state must be in the set of states"
ErrFinalStates == "ValueError: Final states must be a subset of states"
ErrTransitionState == "ValueError: Transition state not in states set"
ErrTransitionSymbol == "ValueError: Symbol not in alphabet"
ErrNextState == "ValueError: Next state not in states set"
ErrInputSymbol == "ValueError: Input symbol not in alphabet"
ErrKeyError == "KeyError"
ErrEmptyInput == "ValueError: Input string cannot be empty"
ErrNotBinary == "ValueError: Input string must contain only '0's and '1's"
ErrInvalidFinalState == "RuntimeError: Invalid final state"

\* the record of a call; ret is the State returned, remainder the int
\* returned by calculate_remainder, result the bool of is_in_final_state,
\* calls the number of process_input calls made, first whether the call was
\* the first one on the instance
Call(op, arg, pre, ret, remainder, result, err, calls, first) ==
    [op |-> op, arg |-> arg, pre |-> pre, ret |-> ret, remainder |-> remainder,
     result |-> result, err |-> err, calls |-> calls, first |-> first]

NoCall == Call("none", << >>, None, None, -1, FALSE, None, 0, FALSE)

\* the position of a call followed statement by statement: pc is "loop" inside
\* the for loop of process_string, "returned" or "raised" once the call has
\* ended; i is the index of the next symbol, steps the number of process_input
\* calls made so far, pre the current state when the call began
Frame(pc, op, input, i, steps, pre, ret, remainder, err) ==
    [pc |-> pc, op |-> op, input |-> input, i |-> i, steps |-> steps, pre |-> pre,
     ret |-> ret, remainder |-> remainder, err |-> err]

NoFrame == Frame("idle", "none", << >>, 0, 0, None, None, -1, None)

----------------------------------------------------------------------------
(* FSM._validate_fsm: the errors validation can raise for a definition;    *)
(* empty when the definition is valid.  The two leading checks are made in *)
(* order; the loop over the transition dictionary raises at the first bad  *)
(* entry in iteration order, which can be any of the bad entries.          *)

\* the (state, symbol) entries of a transition dictionary
Entries(tf) == UNION { { <<state, symbol>> : symbol \in DOMAIN tf[state] } : state \in DOMAIN tf }

\* _validate_fsm without the check of the transitions' next states
_validate_fsm_NoNextStateCheck(sts, alph, init, finals, tf) ==
    IF init \notin sts THEN {ErrInitialState}
    ELSE IF ~(finals \subseteq sts) THEN {ErrFinalStates}
    ELSE { ErrTransitionState : state \in { s \in DOMAIN tf : s \notin sts } }
         \cup { ErrTransitionSymbol :
                  e \in { p \in Entries(tf) : p[1] \in sts /\ p[2] \notin alph } }

_validate_fsm(sts, alph, init, finals, tf) ==
    IF init \notin sts THEN {ErrInitialState}
    ELSE IF ~(finals \subseteq sts) THEN {ErrFinalStates}
    ELSE { ErrTransitionState : state \in { s \in DOMAIN tf : s \notin sts } }
         \cup { ErrTransitionSymbol :
                  e \in { p \in Entries(tf) : p[1] \in sts /\ p[2] \notin alph } }
         \cup { ErrNextState :
                  e \in { p \in Entries(tf) : /\ p[1] \in sts
                                              /\ p[2] \in alph
                                              /\ tf[p[1]][p[2]] \notin sts } }

----------------------------------------------------------------------------
(* FSM.__init__: stores the definition, sets the current state to the      *)
(* initial state and validates.  When validation raises, no instance is    *)
(* created and nothing more can be called; a behaviour constructs once.    *)

FSM__init__(cls, sts, alph, init, finals, tf) ==
    /\ states' = sts
    /\ alphabet' = alph
    /\ initial_state' = init
    /\ final_states' = finals
    /\ transition_function' = tf
    /\ current_state' = init
    /\ UNCHANGED << run, threshold_optimizer >>
    /\ LET errors == _validate_fsm(sts, alph, init, finals, tf)
       IN IF errors = {}
          THEN /\ instance' = cls
               /\ last' = Call("__init__", << >>, None, None, -1, FALSE, None, 0, FALSE)
          ELSE /\ instance' = "none"
               /\ \E e \in errors :
                     last' = Call("__init__", << >>, None, None, -1, FALSE, e, 0, FALSE)

\* FSM(states, alphabet, initial_state, final_states, transition_function)
NewFSM ==
    /\ instance = "none"
    /\ last.op = "none"
    /\ \E sts \in SUBSET GenStates, alph \in SUBSET GenSymbols, init \in GenStates,
          finals \in SUBSET GenStates, tf \in TransitionDicts :
          FSM__init__("FSM", sts, alph, init, finals, tf)

\* the transition table with S1 staying in S1 on '1'
ModThreeTransitions_S1Loop ==
    [ state \in ModThreeState |->
        CASE state = "S0" -> [ symbol \in {"0", "1"} |-> IF symbol = "0" THEN "S0" ELSE "S1" ]
          [] state = "S1" -> [ symbol \in {"0", "1"} |-> IF symbol = "0" THEN "S2" ELSE "S1" ]
          [] state = "S2" -> [ symbol \in {"0", "1"} |-> IF symbol = "0" THEN "S1" ELSE "S2" ] ]

\* the transition table with the entry of S2 on '1' left out
ModThreeTransitions_NoS2On1 ==
    [ state \in ModThreeState |->
        CASE state = "S0" -> [ symbol \in {"0", "1"} |-> IF symbol = "0" THEN "S0" ELSE "S1" ]
          [] state = "S1" -> [ symbol \in {"0", "1"} |-> IF symbol = "0" THEN "S2" ELSE "S0" ]
          [] state = "S2" -> [ symbol \in {"0"} |-> "S1" ] ]

\* the transition table of ModThreeFSM.__init__
ModThreeTransitions ==
    [ state \in ModThreeState |->
        CASE state = "S0" -> [ symbol \in {"0", "1"} |-> IF symbol = "0" THEN "S0" ELSE "S1" ]
          [] state = "S1" -> [ symbol \in {"0", "1"} |-> IF symbol = "0" THEN "S2" ELSE "S0" ]
          [] state = "S2" -> [ symbol \in {"0", "1"} |-> IF symbol = "0" THEN "S1" ELSE "S2" ] ]

\* ModThreeFSM() with S0 as the only final state
NewModThreeFSM_S0Final ==
    /\ instance = "none"
    /\ last.op = "none"
    /\ FSM__init__("ModThreeFSM", ModThreeState, {"0", "1"}, "S0", {"S0"},
                   ModThreeTransitions)

\* ModThreeFSM()
NewModThreeFSM ==
    /\ instance = "none"
    /\ last.op = "none"
    /\ FSM__init__("ModThreeFSM", ModThreeState, {"0", "1"}, "S0", ModThreeState,
                   ModThreeTransitions)

----------------------------------------------------------------------------
(* FSM.reset *)

\* reset leaving the current state where it is
reset_KeepsState ==
    /\ instance # "none"
    /\ current_state' = current_state
    /\ last' = Call("reset", << >>, current_state, None, -1, FALSE, None, 0,
                    last.op = "__init__")
    /\ UNCHANGED << instance, definition, run, threshold_optimizer >>

reset ==
    /\ instance # "none"
    /\ current_state' = initial_state
    /\ last' = Call("reset", << >>, current_state, None, -1, FALSE, None, 0,
                    last.op = "__init__")
    /\ UNCHANGED << instance, definition, run, threshold_optimizer >>

----------------------------------------------------------------------------
(* FSM.process_input: the outcome of one call made in state cur.  The      *)
(* lookup transition_function[cur][symbol] raises KeyError when either key *)
(* is missing, before current_state is assigned.                           *)

Outcome(state, ret, err, calls) ==
    [current_state |-> state, ret |-> ret, err |-> err, calls |-> calls]

\* process_input looking the transition up with a default: a missing entry
\* keeps the current state and raises nothing
ProcessInput_DefaultOnMissing(cur, input_symbol) ==
    IF input_symbol \notin alphabet
    THEN Outcome(cur, None, ErrInputSymbol, 1)
    ELSE IF \/ cur \notin DOMAIN transition_function
            \/ input_symbol \notin DOMAIN transition_function[cur]
    THEN Outcome(cur, cur, None, 1)
    ELSE Outcome(transition_function[cur][input_symbol],
                 transition_function[cur][input_symbol], None, 1)

\* process_input without the alphabet check
ProcessInput_NoAlphabetCheck(cur, input_symbol) ==
    IF \/ cur \notin DOMAIN transition_function
       \/ input_symbol \notin DOMAIN transition_function[cur]
    THEN Outcome(cur, None, ErrKeyError, 1)
    ELSE Outcome(transition_function[cur][input_symbol],
                 transition_function[cur][input_symbol], None, 1)

\* process_input falling back to the initial state before it refuses a symbol
ProcessInput_ResetOnInvalid(cur, input_symbol) ==
    IF input_symbol \notin alphabet
    THEN Outcome(initial_state, None, ErrInputSymbol, 1)
    ELSE IF \/ cur \notin DOMAIN transition_function
            \/ input_symbol \notin DOMAIN transition_function[cur]
    THEN Outcome(cur, None, ErrKeyError, 1)
    ELSE Outcome(transition_function[cur][input_symbol],
                 transition_function[cur][input_symbol], None, 1)

ProcessInput(cur, input_symbol) ==
    IF input_symbol \notin alphabet
    THEN Outcome(cur, None, ErrInputSymbol, 1)
    ELSE IF \/ cur \notin DOMAIN transition_function
            \/ input_symbol \notin DOMAIN transition_function[cur]
    THEN Outcome(cur, None, ErrKeyError, 1)
    ELSE Outcome(transition_function[cur][input_symbol],
                 transition_function[cur][input_symbol], None, 1)

process_input ==
    /\ instance # "none"
    /\ \E input_symbol \in Chars :
          LET r == ProcessInput(current_state, input_symbol)
          IN /\ current_state' = r.current_state
             /\ last' = Call("process_input", << input_symbol >>, current_state, r.ret,
                             -1, FALSE, r.err, r.calls, last.op = "__init__")
    /\ UNCHANGED << instance, definition, run, threshold_optimizer >>

----------------------------------------------------------------------------
(* FSM.process_string: the for loop from position i on, and the whole call *)

\* the loop catching the failure of a symbol and going on with the next one
RECURSIVE ProcessLoop_SkipFailing(_, _, _)
ProcessLoop_SkipFailing(cur, input_string, i) ==
    IF i > Len(input_string)
    THEN Outcome(cur, cur, None, i - 1)
    ELSE ProcessLoop_SkipFailing(ProcessInput(cur, input_string[i]).current_state,
                                 input_string, i + 1)

RECURSIVE ProcessLoop(_, _, _)
ProcessLoop(cur, input_string, i) ==
    IF i > Len(input_string)
    THEN Outcome(cur, cur, None, i - 1)
    ELSE LET r == ProcessInput(cur, input_string[i])
         IN IF r.err # None
            THEN Outcome(r.current_state, None, r.err, i)
            ELSE ProcessLoop(r.current_state, input_string, i + 1)

\* process_string without the check for the empty string
ProcessString_NoEmptyCheck(cur, input_string) ==
    ProcessLoop(cur, input_string, 1)

\* process_string starting every run from the initial state
ProcessString_FromInitial(cur, input_string) ==
    IF input_string = << >>
    THEN Outcome(cur, None, ErrEmptyInput, 0)
    ELSE ProcessLoop(initial_state, input_string, 1)

ProcessString(cur, input_string) ==
    IF input_string = << >>
    THEN Outcome(cur, None, ErrEmptyInput, 0)
    ELSE ProcessLoop(cur, input_string, 1)

process_string ==
    /\ instance # "none"
    /\ \E input_string \in Strings :
          LET r == ProcessString(current_state, input_string)
          IN /\ current_state' = r.current_state
             /\ last' = Call("process_string", input_string, current_state, r.ret,
                             -1, FALSE, r.err, r.calls, last.op = "__init__")
    /\ UNCHANGED << instance, definition, run, threshold_optimizer >>

----------------------------------------------------------------------------
(* FSM.is_in_final_state *)

\* is_in_final_state testing the current state against the state set
is_in_final_state_AnyState ==
    /\ instance # "none"
    /\ last' = Call("is_in_final_state", << >>, current_state, None, -1,
                    current_state \in states, None, 0, last.op = "__init__")
    /\ UNCHANGED << instance, definition, current_state, run, threshold_optimizer >>

is_in_final_state ==
    /\ instance # "none"
    /\ last' = Call("is_in_final_state", << >>, current_state, None, -1,
                    current_state \in final_states, None, 0, last.op = "__init__")
    /\ UNCHANGED << instance, definition, current_state, run, threshold_optimizer >>

----------------------------------------------------------------------------
(* ModThreeFSM.calculate_remainder *)

\* remainder_map
remainder_map == [ state \in ModThreeState |->
                     CASE state = "S0" -> 0 [] state = "S1" -> 1 [] state = "S2" -> 2 ]

\* the outcome of one call made in state cur: the state it leaves, the
\* remainder it returns (-1 when it raises), the error, the process_input calls
Result(state, remainder, err, calls) ==
    [current_state |-> state, remainder |-> remainder, err |-> err, calls |-> calls]

\* calculate_remainder relying on process_input's check of each symbol
CalculateRemainder_NoUpfrontCheck(cur, binary_string) ==
    IF binary_string = << >>
    THEN Result(cur, -1, ErrEmptyInput, 0)
    ELSE LET r == ProcessString(cur, binary_string)
         IN IF r.err # None
            THEN Result(r.current_state, -1, r.err, r.calls)
            ELSE IF r.ret \notin DOMAIN remainder_map
            THEN Result(initial_state, -1, ErrInvalidFinalState, r.calls)
            ELSE Result(initial_state, remainder_map[r.ret], None, r.calls)

CalculateRemainder(cur, binary_string) ==
    IF binary_string = << >>
    THEN Result(cur, -1, ErrEmptyInput, 0)
    ELSE IF \E i \in 1..Len(binary_string) : binary_string[i] \notin alphabet
    THEN Result(cur, -1, ErrNotBinary, 0)
    ELSE LET r == ProcessString(cur, binary_string)
         IN IF r.err # None
            THEN Result(r.current_state, -1, r.err, r.calls)
            ELSE IF r.ret \notin DOMAIN remainder_map
            THEN Result(initial_state, -1, ErrInvalidFinalState, r.calls)
            ELSE Result(initial_state, remainder_map[r.ret], None, r.calls)

calculate_remainder ==
    /\ instance = "ModThreeFSM"
    /\ \E binary_string \in Strings :
          LET r == CalculateRemainder(current_state, binary_string)
          IN /\ current_state' = r.current_state
             /\ last' = Call("calculate_remainder", binary_string, current_state, None,
                             r.remainder, FALSE, r.err, r.calls, last.op = "__init__")
    /\ UNCHANGED << instance, definition, run, threshold_optimizer >>

----------------------------------------------------------------------------
(* threshold_optimizer.py: ClassificationMetrics and ThresholdOptimizer.   *)
(* Thresholds are given in tenths.  recall, precision and min_recall are   *)
(* floats in the code; here they are exact fractions <<numerator,          *)
(* denominator>>, which order the same way as the floats for counts as     *)
(* small as the ones tried.                                                *)

\* the threshold values of the metrics tried
Thresholds == {5, 6, 7}

\* ClassificationMetrics(threshold, true_positives, true_negatives,
\* false_positives, false_negatives): the metrics tried have every count from
\* 0 to MaxCount where the count matters, and -1 as a negative count
ClassificationMetrics ==
    [threshold : Thresholds, true_positives : 0..MaxCount, true_negatives : {0},
     false_positives : 0..MaxCount, false_negatives : 0..MaxCount]
    \cup [threshold : Thresholds, true_positives : {0}, true_negatives : {-1},
          false_positives : {0}, false_negatives : {0}]

\* the lists handed to ThresholdOptimizer(metrics_list), the empty one included
MetricsLists == UNION { [1..n -> ClassificationMetrics] : n \in 0..MaxMetrics }

\* the values of min_recall tried: below 0, 0, 1/2, 2/3, 1, above 1
MinRecalls == { <<-1, 2>>, <<0, 1>>, <<1, 2>>, <<2, 3>>, <<1, 1>>, <<3, 2>> }

\* a >= b for fractions with positive denominators
Geq(a, b) == a[1] * b[2] >= b[1] * a[2]

ErrEmptyMetrics == "ValueError: Metrics list cannot be empty"
ErrDuplicateThreshold == "ValueError: Duplicate threshold found"
ErrNegativeCount == "ValueError: All metric counts must be non-negative"
ErrMinRecall == "ValueError: min_recall must be between 0 and 1"

\* the record of a call on the optimizer: none says that None was returned,
\* threshold is the threshold returned otherwise
Search(op, min_recall, none, threshold, err) ==
    [op |-> op, min_recall |-> min_recall, none |-> none, threshold |-> threshold,
     err |-> err]

NoSearch == Search("none", <<0, 1>>, FALSE, 0, None)

\* ClassificationMetrics.recall
Recall(m) ==
    LET denominator == m.true_positives + m.false_negatives
    IN IF denominator # 0 THEN << m.true_positives, denominator >> ELSE << 0, 1 >>

\* ClassificationMetrics.precision
Precision(m) ==
    LET denominator == m.true_positives + m.false_positives
    IN IF denominator # 0 THEN << m.true_positives, denominator >> ELSE << 0, 1 >>

\* ThresholdOptimizer._validate_metrics: the error raised, None when the
\* list is valid; the loop raises at the first bad index, where the duplicate
\* check comes before the check of the counts
ValidateMetrics(list) ==
    IF list = << >> THEN ErrEmptyMetrics
    ELSE LET Duplicate(i) == \E j \in 1..(i - 1) : list[j].threshold = list[i].threshold
             Negative(i) == \/ list[i].true_positives < 0
                            \/ list[i].true_negatives < 0
                            \/ list[i].false_positives < 0
                            \/ list[i].false_negatives < 0
             bad == { i \in 1..Len(list) : Duplicate(i) \/ Negative(i) }
         IN IF bad = {} THEN None
            ELSE LET i == CHOOSE k \in bad : \A l \in bad : k <= l
                 IN IF Duplicate(i) THEN ErrDuplicateThreshold ELSE ErrNegativeCount

\* ThresholdOptimizer(metrics_list)
NewThresholdOptimizer ==
    /\ optimizer = "none"
    /\ found.op = "none"
    /\ \E list \in MetricsLists :
          /\ metrics_list' = list
          /\ optimizer' = IF ValidateMetrics(list) = None THEN "ThresholdOptimizer" ELSE "none"
          /\ found' = Search("__init__", <<0, 1>>, FALSE, 0, ValidateMetrics(list))
    /\ UNCHANGED << instance, definition, current_state, last, run >>

\* the candidates taken without looking at their recall
Candidates_All(list, min_recall) == list

\* candidates = [m for m in self.metrics_list if m.recall >= min_recall]
Candidates(list, min_recall) ==
    SelectSeq(list, LAMBDA m : Geq(Recall(m), min_recall))

\* max(candidates, key=lambda x: x.precision): the first candidate of the
\* greatest precision
RECURSIVE Max(_, _, _)
Max(candidates, best, i) ==
    IF i > Len(candidates) THEN best
    ELSE IF Geq(Precision(best), Precision(candidates[i]))
    THEN Max(candidates, best, i + 1)
    ELSE Max(candidates, candidates[i], i + 1)

\* ThresholdOptimizer.find_best_threshold
find_best_threshold ==
    /\ optimizer = "ThresholdOptimizer"
    /\ \E min_recall \in MinRecalls :
          LET candidates == Candidates(metrics_list, min_recall)
          IN found' =
               IF ~(Geq(min_recall, <<0, 1>>) /\ Geq(<<1, 1>>, min_recall))
               THEN Search("find_best_threshold", min_recall, FALSE, 0, ErrMinRecall)
               ELSE IF candidates = << >>
               THEN Search("find_best_threshold", min_recall, TRUE, 0, None)
               ELSE Search("find_best_threshold", min_recall, FALSE,
                           Max(candidates, candidates[1], 2).threshold, None)
    /\ UNCHANGED << optimizer, metrics_list >>
    /\ UNCHANGED << instance, definition, current_state, last, run >>

----------------------------------------------------------------------------
(* Specifications *)

Init ==
    /\ instance = "none"
    /\ states = {}
    /\ alphabet = {}
    /\ initial_state = None
    /\ final_states = {}
    /\ transition_function = [ state \in {} |-> [ symbol \in {} |-> None ] ]
    /\ current_state = None
    /\ last = NoCall
    /\ run = NoFrame
    /\ optimizer = "none"
    /\ metrics_list = << >>
    /\ found = NoSearch

\* a ModThreeFSM and the calls made on it
Next ==
    \/ NewModThreeFSM
    \/ reset
    \/ process_input
    \/ process_string
    \/ is_in_final_state
    \/ calculate_remainder

Spec == Init /\ [][Next]_vars

\* a generic engine, built from any definition, and the calls made on it
NextFSM ==
    \/ NewFSM
    \/ reset
    \/ process_input
    \/ process_string
    \/ is_in_final_state

SpecFSM == Init /\ [][NextFSM]_vars

\* a ThresholdOptimizer, built from any list of metrics, and the searches made on it
NextOptimizer ==
    \/ NewThresholdOptimizer
    \/ find_best_threshold

SpecOptimizer == Init /\ [][NextOptimizer]_vars

----------------------------------------------------------------------------
(* process_string and calculate_remainder followed statement by statement on *)
(* a ModThreeFSM: the checks before the loop, one iteration of the for loop  *)
(* of process_string at a time, and the statements after the loop.           *)

\* the call begins: lines 113-116 for process_string, lines 174-182 and then
\* 113-116 for calculate_remainder
loop_begin ==
    /\ instance # "none"
    /\ run.pc # "loop"
    /\ \E op \in {"process_string", "calculate_remainder"}, input \in Strings :
          run' = IF input = << >>
                 THEN Frame("raised", op, input, 0, 0, current_state, None, -1, ErrEmptyInput)
                 ELSE IF /\ op = "calculate_remainder"
                         /\ \E k \in 1..Len(input) : input[k] \notin alphabet
                 THEN Frame("raised", op, input, 0, 0, current_state, None, -1, ErrNotBinary)
                 ELSE Frame("loop", op, input, 1, 0, current_state, None, -1, None)
    /\ UNCHANGED << instance, definition, current_state, last, threshold_optimizer >>

\* one iteration with a second try of a symbol whose process_input raised
loop_step_Retry ==
    /\ run.pc = "loop"
    /\ run.i <= Len(run.input)
    /\ LET r == ProcessInput(current_state, run.input[run.i])
       IN /\ current_state' = r.current_state
          /\ run' = IF r.err # None /\ run.steps < run.i
                    THEN [run EXCEPT !.steps = @ + 1]
                    ELSE IF r.err # None
                    THEN [run EXCEPT !.pc = "raised", !.steps = @ + 1, !.err = r.err]
                    ELSE [run EXCEPT !.i = @ + 1, !.steps = @ + 1]
    /\ UNCHANGED << instance, definition, last, threshold_optimizer >>

\* one iteration of the for loop, lines 118-119: process_input of the next
\* symbol, whose exception ends the call
loop_step ==
    /\ run.pc = "loop"
    /\ run.i <= Len(run.input)
    /\ LET r == ProcessInput(current_state, run.input[run.i])
       IN /\ current_state' = r.current_state
          /\ run' = IF r.err # None
                    THEN [run EXCEPT !.pc = "raised", !.steps = @ + 1, !.err = r.err]
                    ELSE [run EXCEPT !.i = @ + 1, !.steps = @ + 1]
    /\ UNCHANGED << instance, definition, last, threshold_optimizer >>

\* the loop is exhausted: process_string returns the current state (lines
\* 121-122); calculate_remainder resets and decodes it (lines 185-200)
loop_exit ==
    /\ run.pc = "loop"
    /\ run.i > Len(run.input)
    /\ IF run.op = "process_string"
       THEN /\ run' = [run EXCEPT !.pc = "returned", !.ret = current_state]
            /\ UNCHANGED current_state
       ELSE /\ current_state' = initial_state
            /\ run' = IF current_state \notin DOMAIN remainder_map
                      THEN [run EXCEPT !.pc = "raised", !.err = ErrInvalidFinalState]
                      ELSE [run EXCEPT !.pc = "returned",
                                       !.remainder = remainder_map[current_state]]
    /\ UNCHANGED << instance, definition, last, threshold_optimizer >>

NextSteps ==
    \/ NewModThreeFSM
    \/ loop_begin
    \/ loop_step
    \/ loop_exit

\* the code is sequential: a call that has begun runs on until it ends
SpecSteps ==
    Init /\ [][NextSteps]_vars /\ WF_vars(loop_step) /\ WF_vars(loop_exit)

----------------------------------------------------------------------------
(* Reference functions of the properties *)

\* int(s, base=2) for a string s of '0' and '1'
RECURSIVE BinaryValue(_)
BinaryValue(s) ==
    IF s = << >> THEN 0
    ELSE 2 * BinaryValue(SubSeq(s, 1, Len(s) - 1)) + (IF s[Len(s)] = "1" THEN 1 ELSE 0)

\* s is a non-empty string of '0' and '1' only
IsBinary(s) == s # << >> /\ \A i \in 1..Len(s) : s[i] \in {"0", "1"}

\* padded is s with k >= 0 characters '0' in front
IsZeroPadded(padded, s) ==
    \E k \in 0..Len(padded) :
        /\ Len(padded) = k + Len(s)
        /\ \A i \in 1..k : padded[i] = "0"
        /\ SubSeq(padded, k + 1, Len(padded)) = s

\* the state reached from cur by the transitions of the first n symbols of s
RECURSIVE StateAfter(_, _, _)
StateAfter(cur, s, n) ==
    IF n = 0 THEN cur
    ELSE transition_function[StateAfter(cur, s, n - 1)][s[n]]

\* process_input of symbol in state cur has a transition to take
HasTransition(cur, symbol) ==
    /\ symbol \in alphabet
    /\ cur \in DOMAIN transition_function
    /\ symbol \in DOMAIN transition_function[cur]

\* the position of the first symbol of s whose step fails when s is run from
\* cur, Len(s) + 1 when none fails
RECURSIVE FirstFailure(_, _, _)
FirstFailure(cur, s, n) ==
    IF n > Len(s) THEN n
    ELSE IF ~HasTransition(cur, s[n]) THEN n
    ELSE FirstFailure(transition_function[cur][s[n]], s, n + 1)

----------------------------------------------------------------------------
(* Properties of ModThreeFSM, checked under Spec *)

\* C1: calculate_remainder(s), called on a freshly constructed ModThreeFSM
\* with a non-empty string s of '0' and '1', returns int(s, base 2) mod 3.
C1_FreshRemainder ==
    (last.op = "calculate_remainder" /\ last.first /\ IsBinary(last.arg))
        => /\ last.err = None
           /\ last.remainder = BinaryValue(last.arg) % 3

\* a fresh instance was asked for the remainder of "1011" (eleven) and said 2
C1_Witness ==
    /\ last.op = "calculate_remainder"
    /\ last.first
    /\ last.arg = << "1", "0", "1", "1" >>
    /\ last.remainder = 2

\* C2: after any sequence of earlier calls on the same instance,
\* calculate_remainder(s) on a non-empty string s of '0' and '1' returns
\* int(s, base 2) mod 3.
C2_RemainderAfterAnyCalls ==
    (last.op = "calculate_remainder" /\ IsBinary(last.arg))
        => /\ last.err = None
           /\ last.remainder = BinaryValue(last.arg) % 3

\* C3: after every successful calculate_remainder the current state is the
\* initial state, and calculate_remainder called twice in a row with the same
\* input on the same instance returns the same result both times.
C3_SameResultTwice ==
    [][ /\ (last'.op = "calculate_remainder" /\ last'.err = None)
            => current_state' = initial_state'
        /\ ( /\ last.op = "calculate_remainder" /\ last.err = None
             /\ last'.op = "calculate_remainder" /\ last'.err = None
             /\ last'.arg = last.arg )
            => last'.remainder = last.remainder ]_vars

\* C4: calculate_remainder on a non-empty string with a character outside
\* {'0','1'} at any position raises the not-binary ValueError, makes no
\* process_input call and leaves the current state as it was before the call.
C4_InvalidRejectedAtomically ==
    ( /\ last.op = "calculate_remainder"
      /\ last.arg # << >>
      /\ \E i \in 1..Len(last.arg) : last.arg[i] \notin {"0", "1"} )
        => /\ last.err = ErrNotBinary
           /\ last.calls = 0
           /\ current_state = last.pre

\* "102" was rejected in state S1, after two valid bits, and S1 is still current
C4_Witness ==
    /\ last.op = "calculate_remainder"
    /\ last.arg = << "1", "0", "2" >>
    /\ last.pre = "S1"
    /\ last.err = ErrNotBinary
    /\ current_state = "S1"

\* C5: process_string and calculate_remainder raise the empty-input ValueError
\* on the empty string in every state of the instance, and leave the current
\* state unchanged.
C5_EmptyInputFails ==
    (last.op \in {"process_string", "calculate_remainder"} /\ last.arg = << >>)
        => /\ last.err = ErrEmptyInput
           /\ last.calls = 0
           /\ current_state = last.pre

\* process_string("") was rejected in state S2
C5_Witness ==
    /\ last.op = "process_string"
    /\ last.arg = << >>
    /\ last.pre = "S2"
    /\ last.err = ErrEmptyInput
    /\ current_state = "S2"

\* C10: leading zeros do not change the result: calculate_remainder of s and
\* of s with k >= 0 characters '0' in front, called one after the other on
\* the same instance in either order, return the same remainder.
C10_LeadingZeros ==
    [][ ( /\ last.op = "calculate_remainder" /\ last.err = None
          /\ last'.op = "calculate_remainder" /\ last'.err = None
          /\ IsBinary(last.arg) /\ IsBinary(last'.arg)
          /\ \/ IsZeroPadded(last'.arg, last.arg)
             \/ IsZeroPadded(last.arg, last'.arg) )
            => last'.remainder = last.remainder ]_vars

----------------------------------------------------------------------------
(* Properties of the generic engine, checked under SpecFSM *)

\* the definition handed to the constructor is inconsistent in one of the five ways
BadDefinition ==
    \/ initial_state \notin states
    \/ ~(final_states \subseteq states)
    \/ \E state \in DOMAIN transition_function :
          \/ state \notin states
          \/ \E symbol \in DOMAIN transition_function[state] :
                \/ symbol \notin alphabet
                \/ transition_function[state][symbol] \notin states

\* C6: constructing the generic engine raises a validation ValueError whenever
\* the initial state is not in the state set, the final states are not a
\* subset of it, or a transition has a source state outside it, a symbol
\* outside the alphabet or a next state outside it; otherwise construction
\* succeeds and the current state is the initial state.
C6_ConstructionValidates ==
    last.op = "__init__"
        => IF BadDefinition
           THEN /\ last.err \in {ErrInitialState, ErrFinalStates, ErrTransitionState,
                                 ErrTransitionSymbol, ErrNextState}
                /\ instance = "none"
           ELSE /\ last.err = None
                /\ instance = "FSM"
                /\ current_state = initial_state

\* a definition whose only fault is a next state outside the state set was refused
C6_Witness ==
    /\ last.op = "__init__"
    /\ initial_state \in states
    /\ final_states \subseteq states
    /\ \A p \in Entries(transition_function) : p[1] \in states /\ p[2] \in alphabet
    /\ \E p \in Entries(transition_function) : transition_function[p[1]][p[2]] \notin states
    /\ last.err = ErrNextState
    /\ instance = "none"

\* C7: on an engine with a partial transition table, process_input with a
\* symbol of the alphabet that has no entry for the current state raises
\* KeyError and leaves the current state unchanged.
C7_UndefinedTransition ==
    ( /\ last.op = "process_input"
      /\ last.arg[1] \in alphabet
      /\ \/ last.pre \notin DOMAIN transition_function
         \/ last.arg[1] \notin DOMAIN transition_function[last.pre] )
        => /\ last.err = ErrKeyError
           /\ last.ret = None
           /\ current_state = last.pre

\* in S1, reached by a transition, the alphabet symbol '1' had no entry
C7_Witness ==
    /\ last.op = "process_input"
    /\ last.pre = "S1"
    /\ initial_state = "S0"
    /\ last.arg = << "1" >>
    /\ "1" \in alphabet
    /\ "S1" \in DOMAIN transition_function
    /\ "1" \notin DOMAIN transition_function["S1"]
    /\ last.err = ErrKeyError
    /\ current_state = "S1"

\* C8: process_input with a symbol outside the alphabet raises the
\* input-symbol ValueError and leaves the current state unchanged; with a
\* symbol of the alphabet that has an entry for the current state it sets the
\* current state to the entry's next state and returns that state.
C8_ProcessInput ==
    last.op = "process_input"
        => /\ last.arg[1] \notin alphabet
                => /\ last.err = ErrInputSymbol
                   /\ current_state = last.pre
           /\ HasTransition(last.pre, last.arg[1])
                => /\ last.err = None
                   /\ current_state = transition_function[last.pre][last.arg[1]]
                   /\ last.ret = current_state

\* '1', a symbol the table of a smaller alphabet cannot mention, was refused in S1
C8_Witness ==
    /\ last.op = "process_input"
    /\ last.arg = << "1" >>
    /\ "1" \notin alphabet
    /\ last.pre = "S1"
    /\ initial_state = "S0"
    /\ last.err = ErrInputSymbol
    /\ current_state = "S1"

\* C9: process_string applies process_input to the symbols from left to
\* right and stops at the first one that fails: the call raises that step's
\* error, the current state is the one reached by the symbols before it, from
\* the state before the call, and no later symbol is processed.
C9_FirstFailurePropagates ==
    (last.op = "process_string" /\ last.arg # << >>)
        => LET n == FirstFailure(last.pre, last.arg, 1)
           IN IF n <= Len(last.arg)
              THEN /\ last.err = IF last.arg[n] \in alphabet
                                 THEN ErrKeyError ELSE ErrInputSymbol
                   /\ current_state = StateAfter(last.pre, last.arg, n - 1)
                   /\ last.calls = n
              ELSE /\ last.err = None
                   /\ current_state = StateAfter(last.pre, last.arg, Len(last.arg))
                   /\ last.ret = current_state
                   /\ last.calls = Len(last.arg)

\* a run of three symbols moved from S0 to S1 on the first, failed on the
\* second and never tried the third, which has a transition from S1
C9_Witness ==
    /\ last.op = "process_string"
    /\ Len(last.arg) = 3
    /\ last.pre = "S0"
    /\ FirstFailure(last.pre, last.arg, 1) = 2
    /\ HasTransition("S1", last.arg[3])
    /\ transition_function["S1"][last.arg[3]] = "S0"
    /\ last.err # None
    /\ current_state = "S1"
    /\ last.calls = 2

----------------------------------------------------------------------------
(* Further properties of ModThreeFSM, checked under Spec *)

\* C11: the modulo-3 table is total: in every reachable state of a
\* ModThreeFSM, process_input with '0' or '1' succeeds, and no call ever
\* raises KeyError.
C11_TableTotal ==
    instance = "ModThreeFSM"
        => /\ \A symbol \in {"0", "1"} :
                 /\ current_state \in DOMAIN transition_function
                 /\ symbol \in DOMAIN transition_function[current_state]
                 /\ ProcessInput(current_state, symbol).err = None
           /\ last.err # ErrKeyError

\* '1' was stepped in S2, the last entry of the table, and succeeded
C11_Witness ==
    /\ instance = "ModThreeFSM"
    /\ last.op = "process_input"
    /\ last.arg = << "1" >>
    /\ last.pre = "S2"
    /\ last.err = None
    /\ current_state = "S2"

\* C19: the current state changes only through a successful process_input
\* (called directly or inside process_string / calculate_remainder) and
\* through reset, and no call on an instance changes its definition (state
\* set, alphabet, initial state, final states, transition table).
C19_OnlyStepAndResetMutate ==
    [][ instance # "none"
          => /\ definition' = definition
             /\ current_state' # current_state
                  => \/ last'.op = "reset"
                     \/ last'.op = "process_input" /\ last'.err = None
                     \/ /\ last'.op = "process_string"
                        /\ last'.err = None \/ last'.calls >= 2
                     \/ last'.op = "calculate_remainder" /\ last'.calls >= 1 ]_vars

\* a run failed on its third symbol and left the state its two successful
\* steps had reached
C19_Witness ==
    /\ last.op = "process_string"
    /\ last.err = ErrInputSymbol
    /\ last.calls = 3
    /\ last.pre = "S0"
    /\ current_state = "S2"

\* C20: all three states of a ModThreeFSM are final, so is_in_final_state
\* returns true in every reachable state, and every successful
\* calculate_remainder returns a remainder in {0,1,2}: the invalid-final-state
\* RuntimeError is never raised.
C20_AlwaysAccepting ==
    instance = "ModThreeFSM"
        => /\ current_state \in final_states
           /\ last.op = "is_in_final_state" => last.result
           /\ last.err # ErrInvalidFinalState
           /\ (last.op = "calculate_remainder" /\ last.err = None)
                => last.remainder \in {0, 1, 2}

\* is_in_final_state was asked in S2 and said true
C20_Witness ==
    /\ instance = "ModThreeFSM"
    /\ last.op = "is_in_final_state"
    /\ last.pre = "S2"
    /\ current_state = "S2"
    /\ last.result

----------------------------------------------------------------------------
(* Further properties of the generic engine, checked under SpecFSM *)

\* C12: is_in_final_state returns true exactly when the current state is in
\* the final states, raises nothing, and changes neither the current state
\* nor the definition.
C12_IsInFinalStatePure ==
    [][ last'.op = "is_in_final_state"
          => /\ last'.result = (current_state \in final_states)
             /\ last'.err = None
             /\ current_state' = current_state
             /\ definition' = definition ]_vars

\* in S1, reached by a transition and not final although S0 is, the answer was false
C12_Witness ==
    /\ last.op = "is_in_final_state"
    /\ initial_state = "S0"
    /\ final_states = {"S0"}
    /\ current_state = "S1"
    /\ last.result = FALSE

\* C13: reset can be called in every state of an instance, the state a failed
\* run left included, raises nothing and sets the current state to the
\* initial state.
C13_ResetRestoresInitial ==
    /\ instance # "none" => ENABLED reset
    /\ last.op = "reset" => (current_state = initial_state /\ last.err = None)

\* reset was called in S1, not the initial state, and S0 is current again
C13_Witness ==
    /\ last.op = "reset"
    /\ last.pre = "S1"
    /\ initial_state = "S0"
    /\ current_state = "S0"

\* C17: on every constructed engine, after any sequence of process_input,
\* process_string, reset and is_in_final_state calls, failed ones included,
\* the current state is a member of the state set.
C17_CurrentStateInStates ==
    instance # "none" => current_state \in states

\* a run that failed part-way left the engine in a state other than the initial one
C17_Witness ==
    /\ instance = "FSM"
    /\ last.op = "process_string"
    /\ last.err # None
    /\ last.calls >= 2
    /\ current_state # initial_state
    /\ current_state \in states

\* C18: process_string continues from the current state: when process_string(a)
\* and then process_string(b) both succeed, the second leaves and returns the
\* state a single process_string(a followed by b) leaves and returns when
\* started in the state the first call started in.
C18_RunsCompose ==
    [][ ( /\ last.op = "process_string" /\ last.err = None
          /\ last'.op = "process_string" /\ last'.err = None )
          => LET whole == ProcessString(last.pre, last.arg \o last'.arg)
             IN /\ whole.err = None
                /\ current_state' = whole.current_state
                /\ last'.ret = whole.ret ]_vars

\* a successful run started in S1, not the initial state, and moved on to S0
C18_Witness ==
    /\ last.op = "process_string"
    /\ last.err = None
    /\ initial_state = "S0"
    /\ last.pre = "S1"
    /\ current_state = "S0"
    /\ last.ret = "S0"

----------------------------------------------------------------------------
(* Properties of a call followed statement by statement, checked under SpecSteps *)

\* C14: process_string and calculate_remainder terminate: a call on an input
\* of length n makes at most n process_input calls, and once in its loop it
\* ends, by returning or by raising.
C14_Terminates ==
    /\ [](run.steps <= Len(run.input))
    /\ (run.pc = "loop") ~> (run.pc \in {"returned", "raised"})

\* a call on a string of the greatest length returned after one step per symbol
C14_Witness ==
    /\ run.pc = "returned"
    /\ run.op = "calculate_remainder"
    /\ Len(run.input) = MaxLen
    /\ run.steps = Len(run.input)

\* C16: every transition of the ModThreeFSM is r' = (2r + bit) mod 3, with S0,
\* S1, S2 standing for 0, 1, 2; and while a string is run from the initial
\* state, after each step the current state stands for the value of the bits
\* read so far, modulo 3.
C16_PrefixRemainder ==
    instance = "ModThreeFSM"
        => /\ \A state \in ModThreeState, bit \in {0, 1} :
                 remainder_map[transition_function[state][IF bit = 1 THEN "1" ELSE "0"]]
                     = (2 * remainder_map[state] + bit) % 3
           /\ (run.pc = "loop" /\ run.pre = initial_state)
                => remainder_map[current_state]
                     = BinaryValue(SubSeq(run.input, 1, run.i - 1)) % 3

\* with "101" (five) read of a longer string run from S0, the state is S2
C16_Witness ==
    /\ instance = "ModThreeFSM"
    /\ run.pc = "loop"
    /\ run.pre = "S0"
    /\ run.i = 4
    /\ Len(run.input) = 4
    /\ SubSeq(run.input, 1, 3) = << "1", "0", "1" >>
    /\ current_state = "S2"

----------------------------------------------------------------------------
(* Properties of ThresholdOptimizer, checked under SpecOptimizer *)

\* the metrics of the list
Metrics == { metrics_list[i] : i \in 1..Len(metrics_list) }

\* C15: find_best_threshold(min_recall) with 0 <= min_recall <= 1 returns None
\* exactly when no metric of the list has recall >= min_recall; otherwise it
\* returns the threshold of a metric whose recall is >= min_recall and whose
\* precision is the greatest among the metrics with recall >= min_recall.
C15_BestThreshold ==
    ( /\ found.op = "find_best_threshold"
      /\ Geq(found.min_recall, <<0, 1>>)
      /\ Geq(<<1, 1>>, found.min_recall) )
        => LET eligible == { m \in Metrics : Geq(Recall(m), found.min_recall) }
           IN /\ found.err = None
              /\ found.none <=> eligible = {}
              /\ ~found.none
                   => \E m \in eligible :
                         /\ m.threshold = found.threshold
                         /\ \A other \in eligible : Geq(Precision(m), Precision(other))

\* a threshold was returned although another metric of the list has a greater
\* precision: that one's recall is below min_recall
C15_Witness ==
    /\ found.op = "find_best_threshold"
    /\ found.err = None
    /\ ~found.none
    /\ \E m \in Metrics, other \in Metrics :
          /\ m.threshold = found.threshold
          /\ ~Geq(Precision(m), Precision(other))
          /\ ~Geq(Recall(other), found.min_recall)
          /\ Geq(Recall(m), found.min_recall)

====
